---- MODULE Spec2Model ----
(***************************************************************************)
(* Open-addressing hash tables of the repository.                          *)
(*                                                                         *)
(*   a_*  the arena-backed Robin Hood table, OpenAddressTable<Key,Value>   *)
(*        of src/table.h, instantiated as HashTable64 (uint64_t keys and   *)
(*        values), together with its MemoryArena;                          *)
(*   v_*  the vector-backed Robin Hood table of src/table.cpp;             *)
(*   l_*  the linear-probing table with tombstones of                      *)
(*        src/open_address_table.cpp.                                      *)
(*                                                                         *)
(* XXH64 is not part of the repository: the hash is an arbitrary function  *)
(* from keys to naturals, fixed when the table is built (variable hash).   *)
(* Every public call is one action; its loops are recursive operators.     *)
(* The h_* variables are the harness of src/test.cpp: the reference map it *)
(* keeps beside the table and the record of the last call and its result.  *)
(***************************************************************************)
EXTENDS Integers, Sequences, FiniteSets, TLC

VARIABLES
    hash,               \* Hash::hash / hash_key: key -> 64-bit hash
    a_arena_size,       \* MemoryArena::arena_size_
    a_used,             \* MemoryArena::used_
    a_metadata,         \* metadata_[0 .. capacity_-1]
    a_values,           \* values_[0 .. capacity_-1]
    a_capacity,         \* capacity_
    a_size,             \* size_
    a_metadata_offset,  \* metadata_offset_
    a_values_offset,    \* values_offset_
    v_data,             \* data_[0 .. data_.size()-1]
    v_size,             \* size_
    v_tombstone_ct,     \* tombstone_ct_
    l_data,             \* data_[0 .. data_.size()-1] of the linear-probing table
    l_size,             \* its size_
    l_tombstone_ct,     \* its tombstone_ct_
    h_ref,              \* the harness's reference map: key -> <<>> or <<value>>
    h_inserted,         \* the harness's count of keys inserted in order
    h_last,             \* the last call: operation, arguments, result
    w_call              \* the call of the vector-backed table that is running:
                        \* its loop and the loop's local variables

avars == <<a_arena_size, a_used, a_metadata, a_values, a_capacity, a_size,
           a_metadata_offset, a_values_offset>>
vvars == <<v_data, v_size, v_tombstone_ct>>
lvars == <<l_data, l_size, l_tombstone_ct>>
hvars == <<h_ref, h_inserted, h_last>>
vars == <<hash, avars, vvars, lvars, hvars, w_call>>

----------------------------------------------------------------------------
(* Bounds of the model *)

\* values are 1 .. MaxVal (0 is the content of untouched memory)
MaxVal == 2
\* the linear-probing table starts with 2^LinearCapacityLog2 slots
LinearCapacityLog2 == 4
\* the calls of insert, and the successful calls of erase, on the table that is
\* given its sentinel values as keys
MaxInsertsS == 4
MaxErasesS == 3
\* filler keys the arena table's workload inserts in order, one per home slot
NumFillA == 55
\* the other calls on the arena table start once this many are inserted
PreFillA == 53
\* filler keys the vector table's workload inserts in order
NumFillV == 13

(* Program constants *)

INITIAL_CAPACITY == 64
CACHELINE_SIZE == 64
\* LOAD_FACTOR_THRESHOLD = 0.85 of table.h as the fraction 17 / 20
A_LOAD_NUM == 17
A_LOAD_DEN == 20
\* sizeof(MetaDataEntry) and sizeof(Value) of HashTable64
SIZEOF_META == 16
SIZEOF_VALUE == 8
\* the default arena: 1ULL << 30
DEFAULT_ARENA == 1073741824
\* OpenAddressTable(size_t initial_size = 64) of table.cpp
DEFAULT_INITIAL_SIZE == 64
\* LOAD_FACTOR_THRESHOLD = 0.75 of table.cpp as the fraction 3 / 4
V_LOAD_NUM == 3
V_LOAD_DEN == 4
\* static_cast<uint8_t> and the uint16_t probe_dist_ field
UINT8_MOD == 256
UINT16_MOD == 65536

----------------------------------------------------------------------------
(* Keys, values and hashes the calls are made with *)

FreeKeysA == {0, 1}
FreeKeysV == {0, 1, 2}
FreeKeys == FreeKeysA \cup FreeKeysV
FillBase == 100
FillKeysA == FillBase .. (FillBase + NumFillA - 1)
FillKeysV == FillBase .. (FillBase + NumFillV - 1)
Vals == 1 .. MaxVal

\* the hashes a free key may have. 0 and 64 share a home slot at capacity 64
\* and part at 128; 127 is the last slot of every capacity
HashValsA == [k \in FreeKeysA |-> {0, 64, 127}]
\* 4 shares the home slot of 0 up to capacity 4. The keys are interchangeable,
\* so the choices are those up to renaming: all three keys on one home slot,
\* two on one, neighbours, and a run that wraps around the end
HashValsV == [k \in FreeKeysV |-> IF k = 0 THEN {0}
                                  ELSE IF k = 1 THEN {0, 4} ELSE {0, 4, 127}]
\* the capacities the vector-backed table is built with
InitialSizesV == {4, 16}
\* the other calls on the vector-backed table start at once
PreFillV == 0

\* the value the workload stores with a filler key
FillVal(k) == (k % MaxVal) + 1

Pow2(n) == 2 ^ n

----------------------------------------------------------------------------
(* Bit operations of size_t, on the naturals the model uses *)

RECURSIVE BitAndBits(_, _)
BitAndBits(a, b) ==
    IF a = 0 \/ b = 0 THEN 0
    ELSE ((a % 2) * (b % 2)) + 2 * BitAndBits(a \div 2, b \div 2)

\* the numbers 2^n - 1, whose bits are n ones
LowMasks == {Pow2(n) - 1 : n \in 0 .. 30}

\* a & b. And with n low ones keeps the low n bits, which is a % 2^n
BitAnd(a, b) == IF b \in LowMasks THEN a % (b + 1) ELSE BitAndBits(a, b)

RECURSIVE BitOr(_, _)
BitOr(a, b) ==
    IF a = 0 THEN b
    ELSE IF b = 0 THEN a
    ELSE (IF (a % 2 = 1) \/ (b % 2 = 1) THEN 1 ELSE 0) + 2 * BitOr(a \div 2, b \div 2)

\* x >> k; every number of the model is below 2^31
Shr(x, k) == IF k >= 31 THEN 0 ELSE x \div Pow2(k)

\* x |= x >> k
ShiftOr(x, k) == BitOr(x, Shr(x, k))

\* Hash::hash(key)
Hash(key) == hash[key]

IsPow2(n) == \E e \in 0 .. 30 : n = Pow2(e)

----------------------------------------------------------------------------
(* src/table.h: MemoryArena *)

\* (bytes + 63) & ~63: bytes + 63 with its low six bits cleared
align_to_cacheline(bytes) ==
    (bytes + CACHELINE_SIZE - 1) - ((bytes + CACHELINE_SIZE - 1) % CACHELINE_SIZE)

\* a < b between two size_t values. A size_t value is written as the integer
\* nearest to zero that equals it modulo 2^64, so that -128 is 2^64 - 128:
\* sums and products of such integers are the sums and products modulo 2^64,
\* and a negative one is above every one that is not negative
U64Less(a, b) == IF (a < 0) = (b < 0) THEN a < b ELSE b < 0

\* allocate<T>(count): ok = FALSE is the "too big" exception
allocate(used, arena_size, count, elem_size) ==
    LET aligned_bytes == align_to_cacheline(count * elem_size)
    IN  IF U64Less(arena_size, used + aligned_bytes)
        THEN [ok |-> FALSE, used |-> used, offset |-> used]
        ELSE [ok |-> TRUE, used |-> used + aligned_bytes, offset |-> used]

\* allocate_at_offset that never throws
allocate_at_offset_unchecked(arena_size, offset, count, elem_size) == TRUE

\* allocate_at_offset<T>(offset, count): FALSE is the "out of bounds" exception;
\* used_ is not touched
allocate_at_offset(arena_size, offset, count, elem_size) ==
    ~U64Less(arena_size, offset + count * elem_size)

\* a bump loop that allocates nothing
BumpUsed_none(used, arena_size, total_used) == [ok |-> TRUE, used |-> used]

\* while (arena_.get_used() < total_used) arena_.allocate<char>(64);
RECURSIVE BumpUsed(_, _, _)
BumpUsed(used, arena_size, total_used) ==
    IF used < total_used
    THEN LET r == allocate(used, arena_size, 64, 1)
         IN  IF r.ok THEN BumpUsed(r.used, arena_size, total_used)
             ELSE [ok |-> FALSE, used |-> used]
    ELSE [ok |-> TRUE, used |-> used]

----------------------------------------------------------------------------
(* src/table.h: OpenAddressTable<uint64_t, uint64_t> *)

\* MetaDataEntry() and memset(.., 0, ..)
EmptyMeta == [key_ |-> 0, probe_dist_ |-> 0, status_ |-> 0]

\* the table as one value
TableA ==
    [metadata |-> a_metadata, values |-> a_values, capacity |-> a_capacity,
     size |-> a_size, metadata_offset |-> a_metadata_offset,
     values_offset |-> a_values_offset, used |-> a_used,
     arena_size |-> a_arena_size]

\* the constructor; ok = FALSE when it throws
A_Construct(arena_size) ==
    LET capacity == INITIAL_CAPACITY
        values_offset == align_to_cacheline(capacity * SIZEOF_META)
        total_used == values_offset + capacity * SIZEOF_VALUE
        bump == BumpUsed(0, arena_size, total_used)
    IN  [ok |-> /\ allocate_at_offset(arena_size, 0, capacity, SIZEOF_META)
                /\ allocate_at_offset(arena_size, values_offset, capacity, SIZEOF_VALUE)
                /\ bump.ok,
         t |-> [metadata |-> [i \in 0 .. capacity - 1 |-> EmptyMeta],
                values |-> [i \in 0 .. capacity - 1 |-> 0],
                capacity |-> capacity, size |-> 0,
                metadata_offset |-> 0, values_offset |-> values_offset,
                used |-> bump.used, arena_size |-> arena_size]]

\* next_pow2 without its --x: the power of two above x, also for a power of two
next_pow2_no_decrement(x) ==
    IF x <= 2 THEN 2
    ELSE ShiftOr(ShiftOr(ShiftOr(ShiftOr(ShiftOr(ShiftOr(x, 1), 2), 4), 8), 16), 32) + 1

next_pow2(x) ==
    IF x <= 2 THEN 2
    ELSE ShiftOr(ShiftOr(ShiftOr(ShiftOr(ShiftOr(ShiftOr(x - 1, 1), 2), 4), 8), 16), 32) + 1

\* the threshold test with 0.8 for 0.85
A_LoadAtFourFifths(size, capacity) ==
    capacity # 0 /\ size * 5 >= 4 * capacity

\* load_factor() >= LOAD_FACTOR_THRESHOLD. size_/capacity_ is exact in a double
\* for a power-of-two capacity and 0.85 is no such quotient, so the comparison
\* of doubles is the comparison of fractions
A_LoadAtThreshold(size, capacity) ==
    capacity # 0 /\ size * A_LOAD_DEN >= A_LOAD_NUM * capacity

\* the probe loop of insert_during_resize
RECURSIVE A_ResizeLoop(_, _, _, _, _)
A_ResizeLoop(t, pos, probe_dist, working_key, working_value) ==
    LET meta == t.metadata[pos]
        mask == t.capacity - 1
    IN  IF meta.status_ = 0
        THEN [t EXCEPT !.metadata[pos] = [key_ |-> working_key,
                                          probe_dist_ |-> probe_dist,
                                          status_ |-> 2],
                       !.values[pos] = working_value,
                       !.size = @ + 1]
        ELSE IF probe_dist > meta.probe_dist_
        THEN A_ResizeLoop([t EXCEPT !.metadata[pos].key_ = working_key,
                                    !.metadata[pos].probe_dist_ = probe_dist,
                                    !.values[pos] = working_value],
                          BitAnd(pos + 1, mask),
                          (meta.probe_dist_ + 1) % UINT16_MOD,
                          meta.key_, t.values[pos])
        ELSE A_ResizeLoop(t, BitAnd(pos + 1, mask),
                          (probe_dist + 1) % UINT16_MOD,
                          working_key, working_value)

\* insert_during_resize that starts at the home slot of the old capacity
a_insert_during_resize_old_mask(t, key, val) ==
    A_ResizeLoop(t, BitAnd(Hash(key), (t.capacity \div 2) - 1), 0, key, val)

a_insert_during_resize(t, key, val) ==
    A_ResizeLoop(t, BitAnd(Hash(key), t.capacity - 1), 0, key, val)

\* for (i = 0; i < old_capacity; ++i) if (old_metadata[i].status_ == 2) ...
RECURSIVE A_Reinsert(_, _, _, _, _)
A_Reinsert(t, old_metadata, old_values, i, old_capacity) ==
    \* (size_ is never negative: the second test is never true and makes TLC
    \* evaluate t before the next iteration)
    IF i >= old_capacity \/ t.size < 0 THEN t
    ELSE A_Reinsert(IF old_metadata[i].status_ = 2
                    THEN a_insert_during_resize(t, old_metadata[i].key_, old_values[i])
                    ELSE t,
                    old_metadata, old_values, i + 1, old_capacity)

\* resize(); threw = TRUE when an arena call throws
a_resize(t) ==
    LET old_capacity == t.capacity
        new_capacity == next_pow2(t.capacity * 2)
        current_end == align_to_cacheline(t.values_offset + old_capacity * SIZEOF_VALUE)
        new_metadata_offset == current_end
        new_values_offset ==
            align_to_cacheline(new_metadata_offset + new_capacity * SIZEOF_META)
        total_used == new_values_offset + new_capacity * SIZEOF_VALUE
        fresh == [t EXCEPT !.metadata = [i \in 0 .. new_capacity - 1 |-> EmptyMeta],
                           !.values = [i \in 0 .. new_capacity - 1 |-> 0],
                           !.metadata_offset = new_metadata_offset,
                           !.values_offset = new_values_offset,
                           !.capacity = new_capacity,
                           !.size = 0]
        bump == BumpUsed(t.used, t.arena_size, total_used)
    IN  IF \/ ~allocate_at_offset(t.arena_size, new_metadata_offset, new_capacity, SIZEOF_META)
           \/ ~allocate_at_offset(t.arena_size, new_values_offset, new_capacity, SIZEOF_VALUE)
        THEN [t |-> t, threw |-> TRUE]
        ELSE [t |-> [A_Reinsert(fresh, t.metadata, t.values, 0, old_capacity)
                        EXCEPT !.used = bump.used],
              threw |-> ~bump.ok]

\* the probe loop of insert
RECURSIVE A_InsertLoop(_, _, _, _, _, _)
A_InsertLoop(t, pos, probe_dist, working_key, working_value, value) ==
    LET meta == t.metadata[pos]
        mask == t.capacity - 1
    IN  IF meta.status_ = 0
        THEN [t |-> [t EXCEPT !.metadata[pos] = [key_ |-> working_key,
                                                 probe_dist_ |-> probe_dist,
                                                 status_ |-> 2],
                              !.values[pos] = working_value,
                              !.size = @ + 1],
              ret |-> "true"]
        ELSE IF meta.status_ = 2
        THEN [t |-> [t EXCEPT !.values[pos] = value], ret |-> "true"]
        ELSE IF probe_dist > meta.probe_dist_
        THEN A_InsertLoop([t EXCEPT !.metadata[pos].key_ = working_key,
                                    !.metadata[pos].probe_dist_ = probe_dist,
                                    !.values[pos] = working_value],
                          BitAnd(pos + 1, mask),
                          (meta.probe_dist_ + 1) % UINT16_MOD,
                          meta.key_, t.values[pos], value)
        ELSE A_InsertLoop(t, BitAnd(pos + 1, mask),
                          (probe_dist + 1) % UINT16_MOD,
                          working_key, working_value, value)

\* insert that reports an update of a present key as "false"
a_insert_reports_update(t, key, value) ==
    LET r == IF A_LoadAtThreshold(t.size, t.capacity)
             THEN a_resize(t) ELSE [t |-> t, threw |-> FALSE]
        done == A_InsertLoop(r.t, BitAnd(Hash(key), r.t.capacity - 1), 0, key, value, value)
    IN  IF r.threw THEN [t |-> r.t, ret |-> "throw"]
        ELSE IF done.t.size = r.t.size THEN [done EXCEPT !.ret = "false"]
        ELSE done

\* insert that adds one to size_ also when it overwrites a value
a_insert_counts_update(t, key, value) ==
    LET r == IF A_LoadAtThreshold(t.size, t.capacity)
             THEN a_resize(t) ELSE [t |-> t, threw |-> FALSE]
        done == A_InsertLoop(r.t, BitAnd(Hash(key), r.t.capacity - 1), 0, key, value, value)
    IN  IF r.threw THEN [t |-> r.t, ret |-> "throw"]
        ELSE [done EXCEPT !.t.size = r.t.size + 1]

\* insert(key, value): the table afterwards and "true", or "throw"
a_insert(t, key, value) ==
    LET r == IF A_LoadAtThreshold(t.size, t.capacity)
             THEN a_resize(t) ELSE [t |-> t, threw |-> FALSE]
    IN  IF r.threw THEN [t |-> r.t, ret |-> "throw"]
        ELSE A_InsertLoop(r.t, BitAnd(Hash(key), r.t.capacity - 1), 0, key, value, value)

\* the probe loop of get
RECURSIVE A_GetLoop(_, _, _, _)
A_GetLoop(t, key, pos, probe_dist) ==
    LET meta == t.metadata[pos]
    IN  IF meta.status_ = 0 THEN << >>
        ELSE IF meta.status_ = 2 /\ meta.key_ = key THEN <<t.values[pos]>>
        ELSE IF probe_dist > meta.probe_dist_ THEN << >>
        ELSE A_GetLoop(t, key, BitAnd(pos + 1, t.capacity - 1),
                       (probe_dist + 1) % UINT16_MOD)

\* get(key): << >> is std::nullopt
a_get(t, key) ==
    IF t.capacity = 0 THEN << >>
    ELSE A_GetLoop(t, key, BitAnd(Hash(key), t.capacity - 1), 0)

\* the backward shift of erase, from the slot the key was found in
RECURSIVE A_ShiftLoop(_, _)
A_ShiftLoop(t, curr_pos) ==
    LET next_pos == BitAnd(curr_pos + 1, t.capacity - 1)
        next_meta == t.metadata[next_pos]
    IN  IF next_meta.status_ # 2 \/ next_meta.probe_dist_ = 0
        THEN [t EXCEPT !.metadata[curr_pos] = EmptyMeta]
        ELSE A_ShiftLoop([t EXCEPT !.metadata[curr_pos] =
                                       [next_meta EXCEPT !.probe_dist_ =
                                           (@ + UINT16_MOD - 1) % UINT16_MOD],
                                   !.values[curr_pos] = t.values[next_pos]],
                         next_pos)

\* the probe loop of erase
RECURSIVE A_EraseLoop(_, _, _, _)
A_EraseLoop(t, key, pos, probe_dist) ==
    LET meta == t.metadata[pos]
    IN  IF meta.status_ = 0 THEN [t |-> t, ret |-> "false"]
        ELSE IF meta.status_ = 2 /\ meta.key_ = key
        THEN [t |-> [A_ShiftLoop(t, pos) EXCEPT !.size = @ - 1], ret |-> "true"]
        ELSE IF probe_dist > meta.probe_dist_ THEN [t |-> t, ret |-> "false"]
        ELSE A_EraseLoop(t, key, BitAnd(pos + 1, t.capacity - 1),
                         (probe_dist + 1) % UINT16_MOD)

\* erase that counts a key it did not find as removed
a_erase_counts_miss(t, key) ==
    LET r == A_EraseLoop(t, key, BitAnd(Hash(key), t.capacity - 1), 0)
    IN  IF r.ret = "false" /\ t.size > 0 THEN [r EXCEPT !.t.size = @ - 1] ELSE r

\* erase(key)
a_erase(t, key) ==
    IF t.capacity = 0 THEN [t |-> t, ret |-> "false"]
    ELSE A_EraseLoop(t, key, BitAnd(Hash(key), t.capacity - 1), 0)

----------------------------------------------------------------------------
(* src/table.cpp: the vector-backed OpenAddressTable *)

\* Entry{0, 0, 0, 0}
EmptyEntry == [key_ |-> 0, val_ |-> 0, probe_dist_ |-> 0, status_ |-> 0]

\* std::vector<Entry>(n): n value-initialized entries, indexed from 0
NewData(n) == [i \in 0 .. n - 1 |-> EmptyEntry]

\* data_.size()
DataSize(data) == Cardinality(DOMAIN data)

\* the table as one value
TableV == [data |-> v_data, size |-> v_size, tombstone_ct |-> v_tombstone_ct]

\* OpenAddressTable(initial_size)
V_Construct(initial_size) ==
    [data |-> NewData(initial_size), size |-> 0, tombstone_ct |-> 0]

\* next_probe_position(current_pos); the prefetches change nothing
next_probe_position(mask, current_pos) == BitAnd(current_pos + 1, mask)

\* the threshold test with > for >=
V_LoadAboveThreshold(size, capacity) ==
    capacity # 0 /\ size * V_LOAD_DEN > V_LOAD_NUM * capacity

\* a table that never sees its load factor at the threshold
V_LoadNeverAtThreshold(size, capacity) == FALSE

\* load_factor() >= LOAD_FACTOR_THRESHOLD; 0.75 is exact in a double
V_LoadAtThreshold(size, capacity) ==
    capacity # 0 /\ size * V_LOAD_DEN >= V_LOAD_NUM * capacity

\* the probe loop of insert_during_resize: new_data and size_ afterwards
RECURSIVE V_ResizeLoop(_, _, _, _, _, _)
V_ResizeLoop(nd, mask, pos, probe_dist, key, val) ==
    LET slot == nd.data[pos]
    IN  IF slot.status_ = 0
        THEN [data |-> [nd.data EXCEPT ![pos] =
                            [key_ |-> key, val_ |-> val,
                             probe_dist_ |-> probe_dist % UINT8_MOD, status_ |-> 2]],
              size |-> nd.size + 1]
        ELSE IF probe_dist > slot.probe_dist_
        THEN V_ResizeLoop([nd EXCEPT !.data[pos] =
                               [key_ |-> key, val_ |-> val,
                                probe_dist_ |-> probe_dist % UINT8_MOD, status_ |-> 2]],
                          mask, BitAnd(pos + 1, mask), slot.probe_dist_ + 1,
                          slot.key_, slot.val_)
        ELSE V_ResizeLoop(nd, mask, BitAnd(pos + 1, mask), probe_dist + 1, key, val)

\* insert_during_resize that starts at the home slot of the old capacity
v_insert_during_resize_old_mask(nd, key, val) ==
    LET mask == DataSize(nd.data) - 1
    IN  V_ResizeLoop(nd, mask, BitAnd(Hash(key), (DataSize(nd.data) \div 2) - 1),
                     0, key, val)

v_insert_during_resize(nd, key, val) ==
    LET mask == DataSize(nd.data) - 1
    IN  V_ResizeLoop(nd, mask, BitAnd(Hash(key), mask), 0, key, val)

\* the two loops of resize, which visit data_[0 .. old_size-1] in order
RECURSIVE V_Reinsert(_, _, _, _)
V_Reinsert(nd, old_data, i, old_size) ==
    \* (size_ is never negative: the second test is never true and makes TLC
    \* evaluate nd before the next iteration)
    IF i >= old_size \/ nd.size < 0 THEN nd
    ELSE V_Reinsert(IF old_data[i].status_ = 2
                    THEN v_insert_during_resize(nd, old_data[i].key_, old_data[i].val_)
                    ELSE nd,
                    old_data, i + 1, old_size)

\* resize without its size_ = 0
v_resize_keeps_size(t) ==
    IF DataSize(t.data) = 0
    THEN [t EXCEPT !.data = NewData(16)]
    ELSE LET old_size == DataSize(t.data)
             nd == V_Reinsert([data |-> NewData(old_size * 2), size |-> t.size],
                              t.data, 0, old_size)
         IN  [data |-> nd.data, size |-> nd.size, tombstone_ct |-> 0]

\* resize()
v_resize(t) ==
    IF DataSize(t.data) = 0
    THEN [t EXCEPT !.data = NewData(16)]
    ELSE LET old_size == DataSize(t.data)
             new_size == old_size * 2
             nd == V_Reinsert([data |-> NewData(new_size), size |-> 0],
                              t.data, 0, old_size)
         IN  [data |-> nd.data, size |-> nd.size, tombstone_ct |-> 0]

\* the probe loop of insert; entry is the carried Entry, key and val the call's
RECURSIVE V_InsertLoop(_, _, _, _, _, _, _)
V_InsertLoop(t, mask, pos, probe_dist, entry, key, val) ==
    LET slot == t.data[pos]
        swapped == probe_dist > slot.probe_dist_ /\ slot.status_ # 1
        carried == IF swapped THEN slot ELSE entry
        dist == IF probe_dist > slot.probe_dist_ THEN carried.probe_dist_
                ELSE probe_dist
    \* (the carried entry is Occupied: the second test is never true and makes
    \* TLC evaluate entry before the next iteration)
    IN  IF slot.status_ = 0 \/ entry.status_ < 0
        THEN [t |-> [t EXCEPT !.data[pos] = entry, !.size = @ + 1], ret |-> "true"]
        ELSE IF slot.status_ = 2 /\ slot.key_ = key
        THEN [t |-> [t EXCEPT !.data[pos].val_ = val], ret |-> "true"]
        ELSE V_InsertLoop(IF swapped THEN [t EXCEPT !.data[pos] = entry] ELSE t,
                          mask, next_probe_position(mask, pos), dist + 1,
                          [carried EXCEPT !.probe_dist_ = (dist + 1) % UINT8_MOD],
                          key, val)

\* insert(key, val)
v_insert(t, key, val) ==
    LET r == IF V_LoadAtThreshold(t.size, DataSize(t.data)) THEN v_resize(t) ELSE t
        mask == DataSize(r.data) - 1
    IN  V_InsertLoop(r, mask, BitAnd(Hash(key), mask), 0,
                     [key_ |-> key, val_ |-> val, probe_dist_ |-> 0, status_ |-> 2],
                     key, val)

\* the probe loop of get
RECURSIVE V_GetLoop(_, _, _, _, _)
V_GetLoop(t, mask, key, pos, probe_dist) ==
    LET slot == t.data[pos]
    IN  IF slot.status_ = 2 /\ slot.key_ = key THEN <<slot.val_>>
        ELSE IF slot.status_ = 2 /\ probe_dist > slot.probe_dist_ THEN << >>
        ELSE IF slot.status_ = 0 THEN << >>
        ELSE V_GetLoop(t, mask, key, next_probe_position(mask, pos), probe_dist + 1)

\* get that compares the key of its home slot before it looks at the status
v_get_key_before_status(t, key) ==
    IF DataSize(t.data) = 0 THEN << >>
    ELSE LET mask == DataSize(t.data) - 1
             pos == BitAnd(Hash(key), mask)
         IN  IF t.data[pos].key_ = key THEN <<t.data[pos].val_>>
             ELSE V_GetLoop(t, mask, key, pos, 0)

\* get(key): << >> is std::nullopt
v_get(t, key) ==
    IF DataSize(t.data) = 0 THEN << >>
    ELSE LET mask == DataSize(t.data) - 1
         IN  V_GetLoop(t, mask, key, BitAnd(Hash(key), mask), 0)

\* erase that marks the slot of the key as a tombstone and shifts nothing
V_ShiftLoop_tombstone(t, mask, curr_pos) ==
    [t EXCEPT !.data[curr_pos].status_ = 1, !.tombstone_ct = @ + 1]

\* the backward shift of erase, from the slot the key was found in
RECURSIVE V_ShiftLoop(_, _, _)
V_ShiftLoop(t, mask, curr_pos) ==
    LET next_pos == next_probe_position(mask, curr_pos)
        next == t.data[next_pos]
    IN  IF next.status_ # 2 \/ next.probe_dist_ = 0
        THEN [t EXCEPT !.data[curr_pos] = EmptyEntry]
        ELSE V_ShiftLoop([t EXCEPT !.data[curr_pos] =
                              [next EXCEPT !.probe_dist_ =
                                  (@ + UINT16_MOD - 1) % UINT16_MOD]],
                         mask, next_pos)

\* the probe loop of erase
RECURSIVE V_EraseLoop(_, _, _, _, _)
V_EraseLoop(t, mask, key, pos, probe_dist) ==
    LET slot == t.data[pos]
    IN  IF slot.status_ = 0 THEN [t |-> t, ret |-> "false"]
        ELSE IF slot.status_ = 2 /\ slot.key_ = key
        THEN [t |-> [V_ShiftLoop(t, mask, pos) EXCEPT !.size = @ - 1], ret |-> "true"]
        ELSE IF probe_dist > slot.probe_dist_ THEN [t |-> t, ret |-> "false"]
        ELSE V_EraseLoop(t, mask, key, next_probe_position(mask, pos), probe_dist + 1)

\* erase without its --size_
v_erase_keeps_size(t, key) ==
    IF DataSize(t.data) = 0 THEN [t |-> t, ret |-> "false"]
    ELSE LET mask == DataSize(t.data) - 1
             r == V_EraseLoop(t, mask, key, BitAnd(Hash(key), mask), 0)
         IN  [r EXCEPT !.t.size = t.size]

\* erase(key)
v_erase(t, key) ==
    IF DataSize(t.data) = 0 THEN [t |-> t, ret |-> "false"]
    ELSE LET mask == DataSize(t.data) - 1
         IN  V_EraseLoop(t, mask, key, BitAnd(Hash(key), mask), 0)

----------------------------------------------------------------------------
(* src/open_address_table.cpp: the linear-probing table with tombstones *)

\* Entry::EMPTY_KEY and Entry::TOMBSTONE, 2^64 - 1 and 2^64 - 2, written as the
\* integers nearest to zero that equal them modulo 2^64
EMPTY_KEY == -1
TOMBSTONE == -2
\* SIZE_MAX, the value of first_tombstone while no tombstone was met
SIZE_MAX == -1

\* INITIAL_CAPACITY is 2097152 = 2^21 in the source; the model keeps a power
\* of two and takes a small exponent
L_INITIAL_CAPACITY == Pow2(LinearCapacityLog2)

\* the low 16 bits of the multiplier 11400714819323198485 = 0x9E3779B97F4A7C15
HASH_MULT_LOW16 == 31765

\* (key * 11400714819323198485ULL) & mask: the low bits of a product are the
\* product of the low bits, for masks up to 2^15 - 1
L_Home(key, mask) ==
    (BitAnd(key, mask) * BitAnd(HASH_MULT_LOW16, mask)) % (mask + 1)

\* float(size_ + tombstone_ct_) / float(data_.size()) >= MAX_LOAD_FACTOR (0.9f).
\* The sum is a size_t: a negative sum stands for one above 2^63. data_.size()
\* is a power of two, so the quotient is exact, and 0.9f is 0.9 - 2.4e-8, which
\* no quotient of the capacities met here falls short of 0.9 by
L_LoadAtThreshold(size, tombstone_ct, capacity) ==
    LET n == size + tombstone_ct
    IN  n < 0 \/ 10 * n >= 9 * capacity

L_EmptyEntry == [key_ |-> EMPTY_KEY, val_ |-> 0]

\* the table as one value
TableL == [data |-> l_data, size |-> l_size, tombstone_ct |-> l_tombstone_ct]

\* OpenAddressTable()
L_Construct ==
    [data |-> [i \in 0 .. L_INITIAL_CAPACITY - 1 |-> L_EmptyEntry],
     size |-> 0, tombstone_ct |-> 0]

\* the while loop of insert, ending at the first tombstone as at an empty slot
RECURSIVE L_InsertLoop_ends_at_tombstone(_, _, _, _, _, _)
L_InsertLoop_ends_at_tombstone(data, mask, key, pos, first_tombstone, steps) ==
    IF data[pos].key_ = EMPTY_KEY
    THEN [out |-> "empty", pos |-> pos, first_tombstone |-> first_tombstone]
    ELSE IF data[pos].key_ = TOMBSTONE
    THEN [out |-> "empty", pos |-> pos, first_tombstone |-> pos]
    ELSE IF data[pos].key_ = key
    THEN [out |-> "found", pos |-> pos, first_tombstone |-> first_tombstone]
    ELSE IF steps >= mask
    THEN [out |-> "hang", pos |-> pos, first_tombstone |-> first_tombstone]
    ELSE L_InsertLoop_ends_at_tombstone(data, mask, key, BitAnd(pos + 1, mask),
                                        first_tombstone, steps + 1)

\* the while loop of insert: it ends at an empty slot or at the key's slot;
\* out = "hang" when every slot of the walk was seen and none ended it, for the
\* loop then goes round for ever
RECURSIVE L_InsertLoop(_, _, _, _, _, _)
L_InsertLoop(data, mask, key, pos, first_tombstone, steps) ==
    IF data[pos].key_ = EMPTY_KEY
    THEN [out |-> "empty", pos |-> pos, first_tombstone |-> first_tombstone]
    ELSE IF data[pos].key_ = key
    THEN [out |-> "found", pos |-> pos, first_tombstone |-> first_tombstone]
    ELSE IF steps >= mask
    THEN [out |-> "hang", pos |-> pos, first_tombstone |-> first_tombstone]
    ELSE L_InsertLoop(data, mask, key, BitAnd(pos + 1, mask),
                      IF data[pos].key_ = TOMBSTONE /\ first_tombstone = SIZE_MAX
                      THEN pos ELSE first_tombstone,
                      steps + 1)

RECURSIVE l_insert(_, _, _)
RECURSIVE l_resize(_)
RECURSIVE L_Reinsert(_, _, _)

\* insert(key, val): mask is taken from data_.size() before resize() runs
l_insert(t, key, val) ==
    LET mask == DataSize(t.data) - 1
        grown == IF L_LoadAtThreshold(t.size, t.tombstone_ct, DataSize(t.data))
                 THEN l_resize(t) ELSE [t |-> t, ok |-> TRUE]
        t1 == grown.t
        w == L_InsertLoop(t1.data, mask, key, L_Home(key, mask), SIZE_MAX, 0)
    IN  IF ~grown.ok \/ w.out = "hang" THEN [t |-> t1, ret |-> "hang"]
        ELSE IF w.out = "found"
        THEN [t |-> [t1 EXCEPT !.data[w.pos].val_ = val], ret |-> "false"]
        ELSE LET reuse == w.first_tombstone # SIZE_MAX
                 pos == IF reuse THEN w.first_tombstone ELSE w.pos
             IN  [t |-> [data |-> [t1.data EXCEPT ![pos] = [key_ |-> key, val_ |-> val]],
                         size |-> t1.size + 1,
                         tombstone_ct |-> IF reuse THEN t1.tombstone_ct - 1
                                          ELSE t1.tombstone_ct],
                  ret |-> "true"]

\* the loop of resize() over old_data, from index i on
L_Reinsert(r, old_data, i) ==
    IF i >= DataSize(old_data) \/ ~r.ok THEN r
    ELSE IF old_data[i].key_ # EMPTY_KEY /\ old_data[i].key_ # TOMBSTONE
    THEN LET s == l_insert(r.t, old_data[i].key_, old_data[i].val_)
         IN  L_Reinsert([t |-> s.t, ok |-> s.ret # "hang"], old_data, i + 1)
    ELSE L_Reinsert(r, old_data, i + 1)

\* resize(): size_ starts again from 0, tombstone_ct_ is left as it is
l_resize(t) ==
    L_Reinsert([t |-> [data |-> [i \in 0 .. 2 * DataSize(t.data) - 1 |-> L_EmptyEntry],
                       size |-> 0, tombstone_ct |-> t.tombstone_ct],
                ok |-> TRUE],
               t.data, 0)

\* the while loop of get
RECURSIVE L_GetLoop(_, _, _, _, _)
L_GetLoop(data, mask, key, pos, steps) ==
    IF data[pos].key_ = EMPTY_KEY THEN [out |-> "absent", got |-> << >>]
    ELSE IF data[pos].key_ = key THEN [out |-> "found", got |-> <<data[pos].val_>>]
    ELSE IF steps >= mask THEN [out |-> "hang", got |-> << >>]
    ELSE L_GetLoop(data, mask, key, BitAnd(pos + 1, mask), steps + 1)

\* get(key)
l_get(t, key) ==
    LET mask == DataSize(t.data) - 1
    IN  L_GetLoop(t.data, mask, key, L_Home(key, mask), 0)

\* the while loop of erase
RECURSIVE L_EraseLoop(_, _, _, _, _)
L_EraseLoop(t, mask, key, pos, steps) ==
    IF t.data[pos].key_ = EMPTY_KEY THEN [t |-> t, ret |-> "false"]
    ELSE IF t.data[pos].key_ = key
    THEN [t |-> [data |-> [t.data EXCEPT ![pos].key_ = TOMBSTONE],
                 size |-> t.size - 1, tombstone_ct |-> t.tombstone_ct + 1],
          ret |-> "true"]
    ELSE IF steps >= mask THEN [t |-> t, ret |-> "hang"]
    ELSE L_EraseLoop(t, mask, key, BitAnd(pos + 1, mask), steps + 1)

\* erase(key)
l_erase(t, key) ==
    LET mask == DataSize(t.data) - 1
    IN  L_EraseLoop(t, mask, key, L_Home(key, mask), 0)

----------------------------------------------------------------------------
(* The harness: the calls of src/test.cpp and the reference map beside them *)

AllKeys == FreeKeys \cup FillKeysA \cup FillKeysV

\* the hash of a filler key: consecutive, clear of the free keys' home slots
FillHash(k) == k - FillBase + 5

\* the hash functions a table is built with
HashFuns(free, hash_vals) ==
    {[k \in AllKeys |-> IF k \in free THEN f[k]
                        ELSE IF k \in FreeKeys THEN 0 ELSE FillHash(k)] :
        f \in {g \in [free -> UNION {hash_vals[k] : k \in free}] :
                  \A k \in free : g[k] \in hash_vals[k]}}

\* What the harness keeps of a call: the operation and its arguments; before
\* it, size(), capacity() and get(key) of the table (size0, cap0, had); its
\* result (ret of insert and erase, got of get) and the reference map's
\* result for the same call (ref_ret: the key was new to insert, was there
\* for erase; ref_got)
NoCall ==
    [op |-> "none", key |-> 0, val |-> 0, size0 |-> 0, cap0 |-> 0, had |-> << >>,
     ret |-> "none", got |-> << >>, ref_ret |-> "none", ref_got |-> << >>]

\* no call of the vector-backed table is running
NoWalk ==
    [pc |-> "idle", key |-> 0, val |-> 0, pos |-> 0, probe_dist |-> 0,
     entry |-> [key_ |-> 0, val_ |-> 0, probe_dist_ |-> 0, status_ |-> 0],
     fill |-> FALSE, size0 |-> 0, cap0 |-> 0, had |-> << >>]

InsertCall(key, val, size0, cap0, had, ret, ref) ==
    [op |-> "insert", key |-> key, val |-> val, size0 |-> size0, cap0 |-> cap0,
     had |-> had, ret |-> ret, got |-> << >>,
     ref_ret |-> IF ref[key] = << >> THEN "true" ELSE "false", ref_got |-> << >>]

GetCall(key, size0, cap0, got, ref) ==
    [op |-> "get", key |-> key, val |-> 0, size0 |-> size0, cap0 |-> cap0,
     had |-> got, ret |-> "none", got |-> got,
     ref_ret |-> "none", ref_got |-> ref[key]]

EraseCall(key, size0, cap0, had, ret, ref) ==
    [op |-> "erase", key |-> key, val |-> 0, size0 |-> size0, cap0 |-> cap0,
     had |-> had, ret |-> ret, got |-> << >>,
     ref_ret |-> IF ref[key] # << >> THEN "true" ELSE "false", ref_got |-> << >>]

\* reference_map[key] = value
RefInsert(ref, key, value) == [ref EXCEPT ![key] = <<value>>]
\* reference_map.erase(key)
RefErase(ref, key) == [ref EXCEPT ![key] = << >>]
RefSize(ref) == Cardinality({k \in DOMAIN ref : ref[k] # << >>})

\* the keys an insert may be called with: the next key of the in-order fill
\* with its value, or a free key with any value once pre_fill keys are in
InsertArgs(free, fill_keys, pre_fill) ==
    {<<k, v>> \in free \X Vals : h_inserted >= pre_fill}
        \cup {<<k, FillVal(k)>> : k \in {FillBase + h_inserted} \cap fill_keys}

\* the keys get and erase may be called with, on the empty table too
LookupArgs(free, pre_fill) == {k \in free : h_inserted = 0 \/ h_inserted >= pre_fill}

----------------------------------------------------------------------------
(* The arena-backed table under the harness *)

ArenaSizes == {DEFAULT_ARENA}

SetTableA(t) ==
    /\ a_metadata' = t.metadata
    /\ a_values' = t.values
    /\ a_capacity' = t.capacity
    /\ a_size' = t.size
    /\ a_metadata_offset' = t.metadata_offset
    /\ a_values_offset' = t.values_offset
    /\ a_used' = t.used
    /\ a_arena_size' = t.arena_size

\* the table built by OpenAddressTable(arena_size)
BuiltA(arena_size) ==
    /\ A_Construct(arena_size).ok
    /\ LET t == A_Construct(arena_size).t
       IN  /\ a_metadata = t.metadata
           /\ a_values = t.values
           /\ a_capacity = t.capacity
           /\ a_size = t.size
           /\ a_metadata_offset = t.metadata_offset
           /\ a_values_offset = t.values_offset
           /\ a_used = t.used
           /\ a_arena_size = t.arena_size

\* the table built by OpenAddressTable(initial_size)
BuiltV(initial_size) ==
    LET t == V_Construct(initial_size)
    IN  /\ v_data = t.data
        /\ v_size = t.size
        /\ v_tombstone_ct = t.tombstone_ct

\* the table built by OpenAddressTable() of src/open_address_table.cpp
BuiltL ==
    /\ l_data = L_Construct.data
    /\ l_size = L_Construct.size
    /\ l_tombstone_ct = L_Construct.tombstone_ct

SetTableL(t) ==
    /\ l_data' = t.data
    /\ l_size' = t.size
    /\ l_tombstone_ct' = t.tombstone_ct

InitA ==
    /\ hash \in HashFuns(FreeKeysA, HashValsA)
    /\ \E arena_size \in ArenaSizes : BuiltA(arena_size)
    /\ BuiltV(DEFAULT_INITIAL_SIZE)
    /\ h_ref = [k \in AllKeys |-> << >>]
    /\ h_inserted = 0
    /\ h_last = NoCall
    /\ w_call = NoWalk
    /\ BuiltL

InsertA ==
    \E kv \in InsertArgs(FreeKeysA, FillKeysA, PreFillA) :
        LET r == a_insert(TableA, kv[1], kv[2])
        IN  /\ SetTableA(r.t)
            /\ h_ref' = IF r.ret = "throw" THEN h_ref ELSE RefInsert(h_ref, kv[1], kv[2])
            /\ h_inserted' = IF r.ret # "throw" /\ kv[1] \notin FreeKeys
                             THEN h_inserted + 1 ELSE h_inserted
            /\ h_last' = InsertCall(kv[1], kv[2], a_size, a_capacity,
                                    a_get(TableA, kv[1]), r.ret, h_ref)
            /\ UNCHANGED <<hash, lvars, w_call, vvars>>

GetA ==
    \E k \in LookupArgs(FreeKeysA, PreFillA) :
        /\ h_last' = GetCall(k, a_size, a_capacity, a_get(TableA, k), h_ref)
        /\ UNCHANGED <<hash, lvars, w_call, avars, vvars, h_ref, h_inserted>>

EraseA ==
    \E k \in LookupArgs(FreeKeysA, PreFillA) :
        LET r == a_erase(TableA, k)
        IN  /\ SetTableA(r.t)
            /\ h_ref' = RefErase(h_ref, k)
            /\ h_last' = EraseCall(k, a_size, a_capacity, a_get(TableA, k), r.ret, h_ref)
            /\ UNCHANGED <<hash, lvars, w_call, vvars, h_inserted>>

NextA == InsertA \/ GetA \/ EraseA

SpecArena == InitA /\ [][NextA]_vars

\* arenas that hold the first table and nothing more (1536 bytes, and 1600 and
\* 4607, which are not multiples of a cache line), and one that holds exactly
\* the first growth (4608)
SmallArenaSizes == {1536, 1600, 4607, 4608}

InitS ==
    /\ hash \in HashFuns(FreeKeysA, HashValsA)
    /\ \E arena_size \in SmallArenaSizes : BuiltA(arena_size)
    /\ BuiltV(DEFAULT_INITIAL_SIZE)
    /\ h_ref = [k \in AllKeys |-> << >>]
    /\ h_inserted = 0
    /\ h_last = NoCall
    /\ w_call = NoWalk
    /\ BuiltL

SpecSmallArena == InitS /\ [][NextA]_vars

----------------------------------------------------------------------------
(* src/table.h: a MemoryArena on its own *)

\* sizes MemoryArena is constructed with
ArenaSizesM == {256, 1000}

\* element counts of allocate<T>(count) and allocate_at_offset<T>(offset, count);
\* -1 is SIZE_MAX and -128 is SIZE_MAX - 127
CountValsM == {1, 64, 65, 200, -128, -1}

\* sizeof(T) for char and for uint64_t
ElemSizesM == {1, SIZEOF_VALUE}

\* offsets allocate_at_offset is called with
OffsetValsM == {0, 192, 1000}

ArenaCall(op, offset, count, elem_size, used0, ret) ==
    [op |-> op, key |-> 0, offset |-> offset, count |-> count,
     elem_size |-> elem_size, used0 |-> used0, ret |-> ret]

\* MemoryArena(arena_size), with no table in it
InitM ==
    /\ hash = [k \in AllKeys |-> 0]
    /\ a_arena_size \in ArenaSizesM
    /\ a_used = 0
    /\ a_metadata = << >>
    /\ a_values = << >>
    /\ a_capacity = 0
    /\ a_size = 0
    /\ a_metadata_offset = 0
    /\ a_values_offset = 0
    /\ BuiltV(DEFAULT_INITIAL_SIZE)
    /\ h_ref = [k \in AllKeys |-> << >>]
    /\ h_inserted = 0
    /\ h_last = NoCall
    /\ w_call = NoWalk
    /\ BuiltL

AllocateM ==
    \E count \in CountValsM, elem_size \in ElemSizesM :
        LET r == allocate(a_used, a_arena_size, count, elem_size)
        IN  /\ a_used' = r.used
            /\ h_last' = ArenaCall("allocate", r.offset, count, elem_size, a_used,
                                   IF r.ok THEN "ok" ELSE "throw")
            /\ UNCHANGED <<hash, lvars, w_call, vvars, h_ref, h_inserted, a_arena_size,
                           a_metadata, a_values, a_capacity, a_size,
                           a_metadata_offset, a_values_offset>>

AllocateAtOffsetM ==
    \E offset \in OffsetValsM, count \in CountValsM, elem_size \in ElemSizesM :
        /\ h_last' = ArenaCall("allocate_at_offset", offset, count, elem_size, a_used,
                               IF allocate_at_offset(a_arena_size, offset, count, elem_size)
                               THEN "ok" ELSE "throw")
        /\ UNCHANGED <<hash, lvars, w_call, avars, vvars, h_ref, h_inserted>>

NextM == AllocateM \/ AllocateAtOffsetM

SpecMemoryArena == InitM /\ [][NextM]_vars

----------------------------------------------------------------------------
(* The vector-backed table under the harness *)

SetTableV(t) ==
    /\ v_data' = t.data
    /\ v_size' = t.size
    /\ v_tombstone_ct' = t.tombstone_ct

InitV ==
    /\ hash \in HashFuns(FreeKeysV, HashValsV)
    /\ \E initial_size \in InitialSizesV : BuiltV(initial_size)
    /\ BuiltA(DEFAULT_ARENA)
    /\ h_ref = [k \in AllKeys |-> << >>]
    /\ h_inserted = 0
    /\ h_last = NoCall
    /\ w_call = NoWalk
    /\ BuiltL

InsertV ==
    \E kv \in InsertArgs(FreeKeysV, FillKeysV, PreFillV) :
        LET r == v_insert(TableV, kv[1], kv[2])
        IN  /\ SetTableV(r.t)
            /\ h_ref' = RefInsert(h_ref, kv[1], kv[2])
            /\ h_inserted' = IF kv[1] \notin FreeKeys THEN h_inserted + 1 ELSE h_inserted
            /\ h_last' = InsertCall(kv[1], kv[2], v_size, DataSize(v_data),
                                    v_get(TableV, kv[1]), r.ret, h_ref)
            /\ UNCHANGED <<hash, lvars, w_call, avars>>

GetV ==
    \E k \in LookupArgs(FreeKeysV, PreFillV) :
        /\ h_last' = GetCall(k, v_size, DataSize(v_data), v_get(TableV, k), h_ref)
        /\ UNCHANGED <<hash, lvars, w_call, avars, vvars, h_ref, h_inserted>>

EraseV ==
    \E k \in LookupArgs(FreeKeysV, PreFillV) :
        LET r == v_erase(TableV, k)
        IN  /\ SetTableV(r.t)
            /\ h_ref' = RefErase(h_ref, k)
            /\ h_last' = EraseCall(k, v_size, DataSize(v_data), v_get(TableV, k),
                                   r.ret, h_ref)
            /\ UNCHANGED <<hash, lvars, w_call, avars, h_inserted>>

NextV == InsertV \/ GetV \/ EraseV

SpecVector == InitV /\ [][NextV]_vars

----------------------------------------------------------------------------
(* The vector-backed table with the keys of the EdgeCases test *)

\* UINT64_MAX, written as the integer nearest to zero that equals it modulo 2^64
UINT64_MAX == -1
\* the keys of the test, and one more
EdgeKeys == {UINT64_MAX, 0, 7}
\* what hash_key may give them: apart, or on the same home slot of 16
EdgeHashVals == {0, 5, 21}
\* OpenAddressTable table{16} of the test fixture
EdgeInitialSize == 16

InitE ==
    /\ hash \in [EdgeKeys -> EdgeHashVals]
    /\ BuiltV(EdgeInitialSize)
    /\ BuiltA(DEFAULT_ARENA)
    /\ h_ref = [k \in EdgeKeys |-> << >>]
    /\ h_inserted = 0
    /\ h_last = NoCall
    /\ w_call = NoWalk
    /\ BuiltL

InsertE ==
    \E k \in EdgeKeys, v \in Vals :
        LET r == v_insert(TableV, k, v)
        IN  /\ SetTableV(r.t)
            /\ h_ref' = RefInsert(h_ref, k, v)
            /\ h_last' = InsertCall(k, v, v_size, DataSize(v_data),
                                    v_get(TableV, k), r.ret, h_ref)
            /\ UNCHANGED <<hash, lvars, w_call, avars, h_inserted>>

GetE ==
    \E k \in EdgeKeys :
        /\ h_last' = GetCall(k, v_size, DataSize(v_data), v_get(TableV, k), h_ref)
        /\ UNCHANGED <<hash, lvars, w_call, avars, vvars, h_ref, h_inserted>>

EraseE ==
    \E k \in EdgeKeys :
        LET r == v_erase(TableV, k)
        IN  /\ SetTableV(r.t)
            /\ h_ref' = RefErase(h_ref, k)
            /\ h_last' = EraseCall(k, v_size, DataSize(v_data), v_get(TableV, k),
                                   r.ret, h_ref)
            /\ UNCHANGED <<hash, lvars, w_call, avars, h_inserted>>

NextE == InsertE \/ GetE \/ EraseE

SpecEdge == InitE /\ [][NextE]_vars

----------------------------------------------------------------------------
(* The vector-backed table one loop iteration at a time *)

\* the most iterations a call's probe loop is followed for (probe_dist is a
\* size_t and has no bound of its own)
MaxWalk == 300
\* the most iterations one step of a running call goes through
WalkStride == 32

\* the value an Occupied slot holds for key, by a scan of data_
V_Stored(data, key) ==
    LET at == {i \in DOMAIN data : data[i].status_ = 2 /\ data[i].key_ = key}
    IN  IF at = {} THEN << >> ELSE <<data[CHOOSE i \in at : TRUE].val_>>

\* a call begins: its locals, and what the harness notes before it
Walk(pc, key, val, pos, entry, fill) ==
    [pc |-> pc, key |-> key, val |-> val, pos |-> pos, probe_dist |-> 0,
     entry |-> entry, fill |-> fill, size0 |-> v_size, cap0 |-> DataSize(v_data),
     had |-> V_Stored(v_data, key)]

\* a call returns: the harness notes the result and updates its map
Return(call, ref) ==
    /\ w_call' = NoWalk
    /\ h_last' = call
    /\ h_ref' = ref
    /\ h_inserted' = IF w_call.fill THEN h_inserted + 1 ELSE h_inserted

\* insert(key, val) up to its while loop
StartInsert(key, val, fill) ==
    /\ w_call.pc = "idle"
    /\ LET r == IF V_LoadAtThreshold(v_size, DataSize(v_data))
                THEN v_resize(TableV) ELSE TableV
           mask == DataSize(r.data) - 1
       IN  /\ SetTableV(r)
           /\ w_call' = Walk("insert", key, val, BitAnd(Hash(key), mask),
                             [key_ |-> key, val_ |-> val, probe_dist_ |-> 0,
                              status_ |-> 2], fill)
    /\ UNCHANGED <<hash, lvars, avars, hvars>>

\* get(key) up to its while loop; an empty data_ returns at once
StartGet(key) ==
    /\ w_call.pc = "idle"
    /\ IF DataSize(v_data) = 0
       THEN /\ h_last' = GetCall(key, v_size, 0, << >>, h_ref)
            /\ UNCHANGED <<w_call, h_ref, h_inserted>>
       ELSE /\ w_call' = Walk("get", key, 0,
                              BitAnd(Hash(key), DataSize(v_data) - 1), EmptyEntry, FALSE)
            /\ UNCHANGED hvars
    /\ UNCHANGED <<hash, lvars, avars, vvars>>

\* erase(key) up to its while loop; an empty data_ returns at once
StartErase(key) ==
    /\ w_call.pc = "idle"
    /\ IF DataSize(v_data) = 0
       THEN /\ h_last' = EraseCall(key, v_size, 0, << >>, "false", h_ref)
            /\ h_ref' = RefErase(h_ref, key)
            /\ UNCHANGED <<w_call, h_inserted>>
       ELSE /\ w_call' = Walk("erase", key, 0,
                              BitAnd(Hash(key), DataSize(v_data) - 1), EmptyEntry, FALSE)
            /\ UNCHANGED hvars
    /\ UNCHANGED <<hash, lvars, avars, vvars>>

\* One iteration of the running call's loop, on data_ and the call's locals.
\* out is "go" when the loop goes round again; otherwise the loop is left:
\* "placed" and "updated" (insert returns true), "found" and "absent" (get),
\* "miss" (erase returns false), "hit" (erase enters its backward shift) and
\* "shifted" (the shift is over; erase does --size_ and returns true).
V_Iterate(data, c) ==
    LET mask == DataSize(data) - 1
        slot == data[c.pos]
        beyond == c.probe_dist > slot.probe_dist_
        onward == [c EXCEPT !.pos = next_probe_position(mask, @),
                            !.probe_dist = @ + 1]
        leave(out) == [data |-> data, c |-> c, out |-> out]
    IN  CASE c.pc = "insert" ->
               LET swapped == beyond /\ slot.status_ # 1
                   carried == IF swapped THEN slot ELSE c.entry
                   dist == IF beyond THEN carried.probe_dist_ ELSE c.probe_dist
               IN  IF slot.status_ = 0
                   THEN [data |-> [data EXCEPT ![c.pos] = c.entry], c |-> c,
                         out |-> "placed"]
                   ELSE IF slot.status_ = 2 /\ slot.key_ = c.key
                   THEN [data |-> [data EXCEPT ![c.pos].val_ = c.val], c |-> c,
                         out |-> "updated"]
                   ELSE [data |-> IF swapped THEN [data EXCEPT ![c.pos] = c.entry]
                                  ELSE data,
                         c |-> [c EXCEPT
                                   !.pos = next_probe_position(mask, @),
                                   !.probe_dist = dist + 1,
                                   !.entry = [carried EXCEPT
                                       !.probe_dist_ = (dist + 1) % UINT8_MOD]],
                         out |-> "go"]
          [] c.pc = "get" ->
               IF slot.status_ = 2 /\ slot.key_ = c.key THEN leave("found")
               ELSE IF slot.status_ = 2 /\ beyond THEN leave("absent")
               ELSE IF slot.status_ = 0 THEN leave("absent")
               ELSE [data |-> data, c |-> onward, out |-> "go"]
          [] c.pc = "erase" ->
               IF slot.status_ = 0 THEN leave("miss")
               ELSE IF slot.status_ = 2 /\ slot.key_ = c.key THEN leave("hit")
               ELSE IF beyond THEN leave("miss")
               ELSE [data |-> data, c |-> onward, out |-> "go"]
          [] c.pc = "shift" ->
               LET next_pos == next_probe_position(mask, c.pos)
                   next == data[next_pos]
               IN  IF next.status_ # 2 \/ next.probe_dist_ = 0
                   THEN [data |-> [data EXCEPT ![c.pos] = EmptyEntry], c |-> c,
                         out |-> "shifted"]
                   ELSE [data |-> [data EXCEPT ![c.pos] =
                                      [next EXCEPT !.probe_dist_ =
                                          (@ + UINT16_MOD - 1) % UINT16_MOD]],
                         c |-> [c EXCEPT !.pos = next_pos,
                                         !.probe_dist = @ + 1], out |-> "go"]

\* up to n iterations, one after another, for as long as the loop goes round
\* (each iteration's result is an element of a set, so that it is worked out
\* once)
RECURSIVE V_Iterations(_, _)
V_Iterations(s, n) ==
    IF n = 0 \/ s.out # "go" \/ s.c.probe_dist >= MaxWalk THEN s
    ELSE CHOOSE r \in {V_Iterations(t, n - 1) : t \in {V_Iterate(s.data, s.c)}} : TRUE

\* the running call goes through its next iterations, at most WalkStride of
\* them, and returns when its loop is left
StepCall ==
    /\ w_call.pc # "idle"
    /\ w_call.probe_dist < MaxWalk
    /\ \E s \in {V_Iterations([data |-> v_data, c |-> w_call, out |-> "go"], WalkStride)} :
       LET c == s.c
       IN  /\ v_data' = s.data
           /\ v_size' = CASE s.out = "placed" -> v_size + 1
                          [] s.out = "shifted" -> v_size - 1
                          [] OTHER -> v_size
           /\ CASE s.out = "go" -> w_call' = c /\ UNCHANGED hvars
                [] s.out = "hit" -> w_call' = [c EXCEPT !.pc = "shift"] /\ UNCHANGED hvars
                [] s.out \in {"placed", "updated"} ->
                       Return(InsertCall(c.key, c.val, c.size0, c.cap0, c.had,
                                         "true", h_ref),
                              RefInsert(h_ref, c.key, c.val))
                [] s.out \in {"found", "absent"} ->
                       Return(GetCall(c.key, c.size0, c.cap0,
                                      IF s.out = "found" THEN <<v_data[c.pos].val_>>
                                      ELSE << >>, h_ref),
                              h_ref)
                [] s.out \in {"miss", "shifted"} ->
                       Return(EraseCall(c.key, c.size0, c.cap0, c.had,
                                        IF s.out = "miss" THEN "false" ELSE "true",
                                        h_ref),
                              RefErase(h_ref, c.key))
    /\ UNCHANGED <<hash, lvars, avars, v_tombstone_ct>>

\* insert's while loop
StepInsert == w_call.pc = "insert" /\ StepCall
\* get's while loop
StepGet == w_call.pc = "get" /\ StepCall
\* erase's outer while loop
StepErase == w_call.pc = "erase" /\ StepCall
\* erase's backward shift (pos is curr_pos)
StepShift == w_call.pc = "shift" /\ StepCall

\* the running call takes its next step
StepW == StepInsert \/ StepGet \/ StepErase \/ StepShift

----------------------------------------------------------------------------
(* Keys that share one home slot, in a table of 512 slots *)

\* the slots the table is built with: the least power of two whose table holds
\* more than 255 keys below the growth threshold
ClusterCapacity == 2 * UINT8_MOD
\* keys the workload inserts in order, all on home slot 0
NumCluster == 258
\* get, erase and the inserts of present keys start once this many are in
PreFillC == 256
ClusterBase == 1000
ClusterKeys == ClusterBase .. (ClusterBase + NumCluster - 1)

\* the hashes agree in the low bits the mask keeps and differ above them
ClusterHash(k) == (k - ClusterBase + 1) * ClusterCapacity

\* the keys get and erase are called with: the two inserted last
WatchedC ==
    {k \in {ClusterBase + h_inserted - 2, ClusterBase + h_inserted - 1} :
        h_inserted >= PreFillC /\ k \in ClusterKeys}

InitC ==
    /\ hash = [k \in ClusterKeys |-> ClusterHash(k)]
    /\ BuiltV(ClusterCapacity)
    /\ BuiltA(DEFAULT_ARENA)
    /\ h_ref = [k \in ClusterKeys |-> << >>]
    /\ h_inserted = 0
    /\ h_last = NoCall
    /\ w_call = NoWalk
    /\ BuiltL

InsertC ==
    \* (the keys go in in order for as long as none has been erased)
    \/ \E k \in {ClusterBase + h_inserted} \cap ClusterKeys :
           v_size = h_inserted /\ StartInsert(k, FillVal(k), TRUE)
    \/ \E k \in WatchedC : v_size = h_inserted /\ StartInsert(k, FillVal(k + 1), FALSE)

GetC == \E k \in WatchedC : StartGet(k)

\* (erase is called once every key but the last is in)
EraseC == \E k \in WatchedC : h_inserted >= NumCluster - 1 /\ StartErase(k)

NextC == InsertC \/ GetC \/ EraseC \/ StepW

SpecCluster == InitC /\ [][NextC]_vars

----------------------------------------------------------------------------
(* Tables of one, two and four slots, one loop iteration at a time *)

\* the capacities the table is built with
InitialSizesW == {1, 2, 4}
\* the keys of the calls
WalkKeys == 0 .. 3
\* all keys on one home slot, keys on two home slots, keys three slots apart
WalkHashFuns ==
    {[k \in WalkKeys |-> 0], [k \in WalkKeys |-> k % 2], [k \in WalkKeys |-> 3 * k]}

InitW ==
    /\ hash \in WalkHashFuns
    /\ \E initial_size \in InitialSizesW : BuiltV(initial_size)
    /\ BuiltA(DEFAULT_ARENA)
    /\ h_ref = [k \in WalkKeys |-> << >>]
    /\ h_inserted = 0
    /\ h_last = NoCall
    /\ w_call = NoWalk
    /\ BuiltL

InsertW == \E k \in WalkKeys : StartInsert(k, FillVal(k), FALSE)

GetW == \E k \in WalkKeys : StartGet(k)

EraseW == \E k \in WalkKeys : StartErase(k)

NextW == InsertW \/ GetW \/ EraseW \/ StepW

SpecWalk == InitW /\ [][NextW]_vars

\* a call that has begun goes on running: nothing but its own loop stands
\* between a call and its return
FairSpecWalk == SpecWalk /\ WF_vars(StepW)

----------------------------------------------------------------------------
(* Tables built with a size that is no power of two *)

\* sizes with the property of the benchmark's OpenAddressTable table(NUM_OPERATIONS / 2),
\* 5000000 slots: data_.size() - 1 has a zero bit below its top bit
InitialSizesN == {3, 6, 12}

InitN ==
    /\ hash \in WalkHashFuns
    /\ \E initial_size \in InitialSizesN : BuiltV(initial_size)
    /\ BuiltA(DEFAULT_ARENA)
    /\ h_ref = [k \in WalkKeys |-> << >>]
    /\ h_inserted = 0
    /\ h_last = NoCall
    /\ w_call = NoWalk
    /\ BuiltL

\* the most insert calls made on one table
MaxInsertsN == 5

InsertN ==
    \E k \in WalkKeys : h_inserted < MaxInsertsN /\ StartInsert(k, FillVal(k), TRUE)

NextN == InsertN \/ GetW \/ EraseW \/ StepW

SpecAnySize == InitN /\ [][NextN]_vars

----------------------------------------------------------------------------
(* The vector-backed table built with initial_size 0 *)

\* sizes the table is built with: none, and one and two slots beside it
InitialSizesZ == {0, 1, 2}

\* the most size_ is followed to on a table with no slots
MaxSizeZ == 3

\* insert(key, val) on an empty data_: load_factor() is 0.0, resize() is not
\* called, mask is SIZE_MAX and data_[pos] is read outside the array. What the
\* read gives is not defined; the outcomes are that the program stops
\* ("crash"), that the bytes read as an Empty slot (the entry is written
\* outside the array, ++size_, return true) and that they read as an Occupied
\* slot with this key (the value is written outside the array, return true).
OutOfBoundsOutcomes == {"crash", "placed", "updated"}

v_insert_empty(t, key, val, outcome) ==
    [t |-> IF outcome = "placed" THEN [t EXCEPT !.size = @ + 1] ELSE t,
     ret |-> IF outcome = "crash" THEN "crash" ELSE "true"]

InitZ ==
    /\ hash \in WalkHashFuns
    /\ \E initial_size \in InitialSizesZ : BuiltV(initial_size)
    /\ BuiltA(DEFAULT_ARENA)
    /\ h_ref = [k \in WalkKeys |-> << >>]
    /\ h_inserted = 0
    /\ h_last = NoCall
    /\ w_call = NoWalk
    /\ BuiltL

InsertZ ==
    \E k \in WalkKeys, v \in Vals, outcome \in OutOfBoundsOutcomes :
        LET r == IF DataSize(v_data) = 0
                 THEN v_insert_empty(TableV, k, v, outcome)
                 ELSE v_insert(TableV, k, v)
        IN  /\ h_last.ret # "crash"
            /\ v_size < MaxSizeZ
            /\ SetTableV(r.t)
            /\ h_ref' = IF r.ret = "crash" THEN h_ref ELSE RefInsert(h_ref, k, v)
            /\ h_last' = InsertCall(k, v, v_size, DataSize(v_data),
                                    V_Stored(v_data, k), r.ret, h_ref)
            /\ UNCHANGED <<hash, lvars, w_call, avars, h_inserted>>

GetZ ==
    \E k \in WalkKeys :
        /\ h_last.ret # "crash"
        /\ h_last' = GetCall(k, v_size, DataSize(v_data), v_get(TableV, k), h_ref)
        /\ UNCHANGED <<hash, lvars, w_call, avars, vvars, h_ref, h_inserted>>

EraseZ ==
    \E k \in WalkKeys :
        LET r == v_erase(TableV, k)
        IN  /\ h_last.ret # "crash"
            /\ SetTableV(r.t)
            /\ h_ref' = RefErase(h_ref, k)
            /\ h_last' = EraseCall(k, v_size, DataSize(v_data), V_Stored(v_data, k),
                                   r.ret, h_ref)
            /\ UNCHANGED <<hash, lvars, w_call, avars, h_inserted>>

NextZ == InsertZ \/ GetZ \/ EraseZ

SpecEmpty == InitZ /\ [][NextZ]_vars

----------------------------------------------------------------------------
(* The linear-probing table under a harness like that of src/test.cpp *)

\* the in-order fill stops one key short of the load at which insert resizes
NumFillL == (9 * L_INITIAL_CAPACITY) \div 10 - 1
FillKeysL == FillBase .. (FillBase + NumFillL - 1)
\* the other calls start when the fill is two keys short of its end
PreFillL == NumFillL - 2
\* the keys of the other calls: 0 and L_INITIAL_CAPACITY share the home slot 0
\* until the table is doubled, and the walk of L_INITIAL_CAPACITY ends in the
\* home slot of 1
FreeKeysL == {0, 1, L_INITIAL_CAPACITY}
KeysL == FreeKeysL \cup FillKeysL

\* get(key) as the harness sees it
L_Got(t, key) == l_get(t, key).got

InitL ==
    /\ hash = [k \in KeysL |-> L_Home(k, L_INITIAL_CAPACITY - 1)]
    /\ BuiltV(DEFAULT_INITIAL_SIZE)
    /\ BuiltA(DEFAULT_ARENA)
    /\ h_ref = [k \in KeysL |-> << >>]
    /\ h_inserted = 0
    /\ h_last = NoCall
    /\ w_call = NoWalk
    /\ BuiltL

InsertL ==
    \E kv \in InsertArgs(FreeKeysL, FillKeysL, PreFillL) :
        LET r == l_insert(TableL, kv[1], kv[2])
        IN  /\ h_last.ret # "hang"
            /\ SetTableL(r.t)
            /\ h_ref' = RefInsert(h_ref, kv[1], kv[2])
            /\ h_inserted' = IF kv[1] \in FillKeysL THEN h_inserted + 1 ELSE h_inserted
            /\ h_last' = InsertCall(kv[1], kv[2], l_size, DataSize(l_data),
                                    L_Got(TableL, kv[1]), r.ret, h_ref)
            /\ UNCHANGED <<hash, w_call, avars, vvars>>

GetL ==
    \E k \in LookupArgs(FreeKeysL, PreFillL) :
        LET r == l_get(TableL, k)
        IN  /\ h_last.ret # "hang"
            /\ h_last' = [GetCall(k, l_size, DataSize(l_data), r.got, h_ref)
                             EXCEPT !.ret = IF r.out = "hang" THEN "hang" ELSE "none"]
            /\ UNCHANGED <<hash, w_call, avars, vvars, lvars, h_ref, h_inserted>>

EraseL ==
    \E k \in LookupArgs(FreeKeysL, PreFillL) :
        LET r == l_erase(TableL, k)
        IN  /\ h_last.ret # "hang"
            /\ SetTableL(r.t)
            /\ h_ref' = RefErase(h_ref, k)
            /\ h_last' = EraseCall(k, l_size, DataSize(l_data), L_Got(TableL, k),
                                   r.ret, h_ref)
            /\ UNCHANGED <<hash, w_call, avars, vvars, h_inserted>>

NextL == InsertL \/ GetL \/ EraseL

SpecLinear == InitL /\ [][NextL]_vars

----------------------------------------------------------------------------
(* The linear-probing table called with the two keys it marks slots with *)

\* both sentinel values as keys, and an ordinary key
SentinelKeys == {EMPTY_KEY, TOMBSTONE, 0}

InitSentinel ==
    /\ hash = [k \in SentinelKeys |-> L_Home(k, L_INITIAL_CAPACITY - 1)]
    /\ BuiltV(DEFAULT_INITIAL_SIZE)
    /\ BuiltA(DEFAULT_ARENA)
    /\ h_ref = [k \in SentinelKeys |-> << >>]
    /\ h_inserted = 0
    /\ h_last = NoCall
    /\ w_call = NoWalk
    /\ BuiltL

\* h_inserted counts the calls of insert
InsertSentinel ==
    \E k \in SentinelKeys, v \in Vals :
        LET r == l_insert(TableL, k, v)
        IN  /\ h_last.ret # "hang"
            /\ h_inserted < MaxInsertsS
            /\ SetTableL(r.t)
            /\ h_ref' = RefInsert(h_ref, k, v)
            /\ h_inserted' = h_inserted + 1
            /\ h_last' = InsertCall(k, v, l_size, DataSize(l_data),
                                    L_Got(TableL, k), r.ret, h_ref)
            /\ UNCHANGED <<hash, w_call, avars, vvars>>

GetSentinel ==
    \E k \in SentinelKeys :
        LET r == l_get(TableL, k)
        IN  /\ h_last.ret # "hang"
            /\ h_last' = [GetCall(k, l_size, DataSize(l_data), r.got, h_ref)
                             EXCEPT !.ret = IF r.out = "hang" THEN "hang" ELSE "none"]
            /\ UNCHANGED <<hash, w_call, avars, vvars, lvars, h_ref, h_inserted>>

EraseSentinel ==
    \E k \in SentinelKeys :
        LET r == l_erase(TableL, k)
        IN  /\ h_last.ret # "hang"
            /\ l_tombstone_ct < MaxErasesS
            /\ SetTableL(r.t)
            /\ h_ref' = RefErase(h_ref, k)
            /\ h_last' = EraseCall(k, l_size, DataSize(l_data), L_Got(TableL, k),
                                   r.ret, h_ref)
            /\ UNCHANGED <<hash, w_call, avars, vvars, h_inserted>>

NextSentinel == InsertSentinel \/ GetSentinel \/ EraseSentinel

SpecSentinel == InitSentinel /\ [][NextSentinel]_vars

----------------------------------------------------------------------------
(* Claims about the arena-backed table, under SpecArena *)

\* some Occupied slot holds key
A_Holds(key) ==
    \E i \in DOMAIN a_metadata :
        a_metadata[i].status_ = 2 /\ a_metadata[i].key_ = key

\* the home slot of key at the present capacity
A_Home(key) == BitAnd(Hash(key), a_capacity - 1)

Returned == h_last.op \in {"insert", "get", "erase"} /\ h_last.ret # "throw"

\* C1: every get returns what the reference map holds for the key, every
\* erase returns true exactly when the reference map held the key, and after
\* every call size() is the size of the reference map.
C1_MatchesReferenceMap ==
    Returned =>
        /\ h_last.op = "get" => h_last.got = h_last.ref_got
        /\ h_last.op = "erase" => h_last.ret = h_last.ref_ret
        /\ a_size = RefSize(h_ref)

\* C3: right after insert(k, v) returns, get(k) returns v.
C3_InsertThenGet ==
    (h_last.op = "insert" /\ h_last.ret # "throw") =>
        a_get(TableA, h_last.key) = <<h_last.val>>

C7_EraseAbsentChangesNothing ==
    [][(h_last'.op = "erase" /\ ~A_Holds(h_last'.key)) =>
          (h_last'.ret = "false" /\ UNCHANGED avars)]_vars

\* an erase of an absent key whose home slot is Occupied returned false
C7_Witness ==
    /\ h_last.op = "erase"
    /\ h_last.ret = "false"
    /\ h_last.had = << >>
    /\ a_metadata[A_Home(h_last.key)].status_ = 2

\* C8: capacity() starts at 64, is a power of two above zero in every state,
\* and every change of it doubles it.
C8_CapacityPowerOfTwo ==
    /\ a_capacity = INITIAL_CAPACITY
    /\ [](a_capacity > 0 /\ IsPow2(a_capacity))
    /\ [][a_capacity' # a_capacity => a_capacity' = 2 * a_capacity]_vars

\* an insert has grown the table
C8_Witness ==
    /\ h_last.op = "insert"
    /\ h_last.cap0 = INITIAL_CAPACITY
    /\ a_capacity = 2 * INITIAL_CAPACITY

\* C9: after every insert that returns, size()/capacity() <= 0.85.
C9_LoadFactorBound ==
    (h_last.op = "insert" /\ h_last.ret # "throw") =>
        a_size * A_LOAD_DEN <= A_LOAD_NUM * a_capacity

----------------------------------------------------------------------------
(* Claims about the vector-backed table, under SpecVector *)

KeysV == FreeKeysV \cup FillKeysV

\* some Occupied slot holds key
V_Holds(key) ==
    \E i \in DOMAIN v_data : v_data[i].status_ = 2 /\ v_data[i].key_ = key

\* the home slot of key at the present capacity
V_Home(key) == BitAnd(Hash(key), DataSize(v_data) - 1)

\* C2: every get returns what the reference map holds for the key (present
\* or not, and the value), every erase returns what the reference map's
\* erase returns, and get of every key agrees with the reference map, across
\* growth steps.
C2_MatchesReferenceMap ==
    /\ h_last.op = "get" => h_last.got = h_last.ref_got
    /\ h_last.op = "erase" => h_last.ret = h_last.ref_ret
    /\ \A k \in KeysV : v_get(TableV, k) = h_ref[k]

\* an erase returned true in a grown table and left a displaced entry
C2_Witness ==
    /\ h_last.op = "erase"
    /\ h_last.ret = "true"
    /\ h_last.ref_ret = "true"
    /\ DataSize(v_data) = 32
    /\ \E i \in DOMAIN v_data : v_data[i].status_ = 2 /\ v_data[i].probe_dist_ >= 1

\* C5: when insert(k, v2) follows insert(k, v1), size() after it is size()
\* before it and get(k) returns v2.
C5_UpdateKeepsSize ==
    [][(h_last.op = "insert" /\ h_last'.op = "insert" /\ h_last'.key = h_last.key) =>
          (v_size' = v_size /\ (v_get(TableV, h_last.key))' = <<h_last'.val>>)]_vars

\* the insert of a present key with another value has grown the table
C5_Witness ==
    /\ h_last.op = "insert"
    /\ h_last.had # << >>
    /\ h_last.had # <<h_last.val>>
    /\ DataSize(v_data) = 2 * h_last.cap0

\* C6: erase(k) returns true exactly when an Occupied slot held k, a true
\* result takes one off size(), get(k) is absent after it, and a key erase
\* is called with that get reports absent stays so through every call but an
\* insert of it (a step that leaves the table and the hash as they were
\* leaves every get as it was).
C6_EraseRemoves ==
    /\ [][h_last'.op = "erase" =>
             (h_last'.ret = "true" <=> V_Holds(h_last'.key))]_vars
    /\ [](h_last.op = "erase" =>
             /\ h_last.ret = "true" => v_size = h_last.size0 - 1
             /\ v_get(TableV, h_last.key) = << >>
             /\ ~V_Holds(h_last.key))
    /\ [][\/ UNCHANGED <<hash, vvars>>
          \/ \A k \in FreeKeysV :
                 \/ h_last'.op = "insert" /\ h_last'.key = k
                 \/ v_get(TableV, k) # << >>
                 \/ (v_get(TableV, k))' = << >>]_vars

\* an erase removed a key that sat away from its home slot
C6_Witness ==
    /\ h_last.op = "erase"
    /\ h_last.ret = "true"
    /\ h_last.had # << >>
    /\ v_size = h_last.size0 - 1
    /\ v_data[V_Home(h_last.key)].status_ = 2

\* C10: an insert changes capacity() exactly when size()/capacity() >= 0.75
\* as it is called; the capacity is then twice the old one and the key is
\* stored at its distance from its home slot of the new capacity. From
\* capacity 16, an insert called with fewer than 12 entries leaves capacity 16
\* and the load factor at most 0.75, and one called with 12 makes it 32.
C10_GrowsAtThreshold ==
    h_last.op = "insert" =>
        LET cap == DataSize(v_data)
            grown == cap # h_last.cap0
        IN  /\ grown <=> h_last.size0 * V_LOAD_DEN >= V_LOAD_NUM * h_last.cap0
            /\ grown => cap = 2 * h_last.cap0
            /\ \E i \in DOMAIN v_data :
                  /\ v_data[i].status_ = 2
                  /\ v_data[i].key_ = h_last.key
                  /\ v_data[i].probe_dist_ = (i + cap - V_Home(h_last.key)) % cap
            /\ (h_last.cap0 = 16 /\ h_last.size0 < 12) =>
                  (cap = 16 /\ v_size * V_LOAD_DEN <= V_LOAD_NUM * cap)
            /\ (h_last.cap0 = 16 /\ h_last.size0 = 12) => cap = 32

\* the thirteenth key went into a table of 16 slots, which grew to 32
C10_Witness ==
    /\ h_last.op = "insert"
    /\ h_last.had = << >>
    /\ h_last.cap0 = 16
    /\ h_last.size0 = 12
    /\ v_size = 13
    /\ DataSize(v_data) = 32

\* C11: every Occupied slot i holding key k stores the distance, with
\* wraparound, from k's home slot to i.
C11_ProbeDistIsDisplacement ==
    \A i \in DOMAIN v_data :
        v_data[i].status_ = 2 =>
            v_data[i].probe_dist_ =
                (i + DataSize(v_data) - V_Home(v_data[i].key_)) % DataSize(v_data)

\* C2 where 258 keys share a home slot: every get returns what the reference
\* map holds for the key, and every erase what the reference map's erase
\* returns.
C2_ClusterMatchesReferenceMap ==
    /\ h_last.op = "get" => h_last.got = h_last.ref_got
    /\ h_last.op = "erase" => h_last.ret = h_last.ref_ret

\* C6 where 258 keys share a home slot: erase(k) returns true exactly when an
\* Occupied slot held k as it was called.
C6_ClusterEraseFindsPresent ==
    h_last.op = "erase" => (h_last.ret = "true" <=> h_last.had # << >>)

\* the (key, value) pairs in the Occupied slots of an arena-backed table
A_Pairs(t) ==
    {<<t.metadata[i].key_, t.values[i]>> :
        i \in {j \in DOMAIN t.metadata : t.metadata[j].status_ = 2}}

\* C12: resize(), called at the load factor at which insert calls it, changes
\* the capacity and keeps the set of (key, value) pairs and size(), and every
\* key get returned before it get returns after it with the same value; and
\* over an insert that has grown the table every other key whose home slot is
\* not the inserted key's keeps what get returns for it.
C12_GrowthKeepsContent ==
    /\ [](A_LoadAtThreshold(a_size, a_capacity) =>
             LET r == a_resize(TableA)
             IN  ~r.threw =>
                     /\ r.t.capacity # a_capacity
                     /\ A_Pairs(r.t) = A_Pairs(TableA)
                     /\ r.t.size = a_size
                     /\ \A k \in DOMAIN hash :
                            a_get(TableA, k) # << >> =>
                                a_get(r.t, k) = a_get(TableA, k))
    /\ [][a_capacity' # a_capacity =>
             \A k \in DOMAIN hash :
                 (/\ a_get(TableA, k) # << >>
                  /\ k # h_last'.key
                  /\ BitAnd(Hash(k), a_capacity' - 1)
                        # BitAnd(Hash(h_last'.key), a_capacity' - 1))
                     => (a_get(TableA, k))' = a_get(TableA, k)]_vars

\* an insert has grown the table, and a key whose home slot the growth moved
\* is where get finds it
C12_Witness ==
    /\ h_last.op = "insert"
    /\ h_last.cap0 = INITIAL_CAPACITY
    /\ a_capacity = 2 * INITIAL_CAPACITY
    /\ \E k \in FreeKeysA :
          /\ k # h_last.key
          /\ A_Home(k) >= INITIAL_CAPACITY
          /\ a_metadata[A_Home(k)].status_ = 2
          /\ a_metadata[A_Home(k)].key_ = k
          /\ a_get(TableA, k) # << >>

\* the end of the ranges resize() asks the arena for
A_GrowthEnd(t) ==
    LET new_capacity == next_pow2(t.capacity * 2)
        new_metadata_offset ==
            align_to_cacheline(t.values_offset + t.capacity * SIZEOF_VALUE)
        new_values_offset ==
            align_to_cacheline(new_metadata_offset + new_capacity * SIZEOF_META)
    IN  new_values_offset + new_capacity * SIZEOF_VALUE

\* C13: an insert called at the growth threshold, when the end of the new
\* ranges is past the arena's size, throws; and an insert that throws leaves
\* capacity, size, the arena's used bytes and every slot as they were.
C13_ExhaustedGrowthThrows ==
    /\ [][(/\ h_last'.op = "insert"
           /\ A_LoadAtThreshold(a_size, a_capacity)
           /\ A_GrowthEnd(TableA) > a_arena_size)
              => h_last'.ret = "throw"]_vars
    /\ [][(h_last'.op = "insert" /\ h_last'.ret = "throw")
              => UNCHANGED <<avars, h_ref>>]_vars

\* an insert has thrown in a table of 64 slots at the threshold
C13_Witness ==
    /\ h_last.op = "insert"
    /\ h_last.ret = "throw"
    /\ a_capacity = INITIAL_CAPACITY
    /\ A_LoadAtThreshold(a_size, a_capacity)
    /\ A_GrowthEnd(TableA) > a_arena_size
    /\ a_used = 1536

\* C14: used_ is never above arena_size_, no step lowers used_, and an allocate
\* whose aligned request is more than the bytes left between used_ and
\* arena_size_ throws and leaves used_ as it was.
C14_UsedBoundedAndMonotone ==
    /\ [](~U64Less(a_arena_size, a_used))
    /\ [][~U64Less(a_used', a_used)]_vars
    /\ [][(/\ h_last'.op = "allocate"
           /\ U64Less(a_arena_size - a_used,
                      align_to_cacheline(h_last'.count * h_last'.elem_size)))
              => (h_last'.ret = "throw" /\ a_used' = a_used)]_vars

\* C15: while insert's probe walk runs some slot is Empty, and every call of
\* insert, get and erase that has begun returns.
C15_CallsTerminate ==
    /\ [](w_call.pc = "insert" =>
             \E i \in DOMAIN v_data : v_data[i].status_ = 0)
    /\ (w_call.pc # "idle") ~> (w_call.pc = "idle")

\* get has returned from a table of two slots that were both Occupied, for a
\* key that is not in it
C15_Witness ==
    /\ h_last.op = "get"
    /\ h_last.got = << >>
    /\ h_last.cap0 = 2
    /\ h_last.size0 = 2
    /\ DataSize(v_data) = 2
    /\ \A i \in DOMAIN v_data : v_data[i].status_ = 2

\* C16: for the keys 0 and UINT64_MAX, get gives what the reference map
\* holds in every state, an insert returns true, an erase returns true
\* exactly for a key that is present, and size() is the number of keys of
\* the reference map.
C16_ExtremeKeysLikeAnyOther ==
    /\ \A k \in {0, UINT64_MAX} : v_get(TableV, k) = h_ref[k]
    /\ v_size = RefSize(h_ref)
    /\ (h_last.key \in {0, UINT64_MAX} /\ h_last.op = "insert") => h_last.ret = "true"
    /\ (h_last.key \in {0, UINT64_MAX} /\ h_last.op = "erase")
           => h_last.ret = h_last.ref_ret

\* keys 0 and UINT64_MAX are both in the table on one home slot with their
\* own values, after the third key was erased
C16_Witness ==
    /\ h_last.op = "erase"
    /\ h_last.key = 7
    /\ h_last.ret = "true"
    /\ BitAnd(Hash(0), DataSize(v_data) - 1) = BitAnd(Hash(UINT64_MAX), DataSize(v_data) - 1)
    /\ v_get(TableV, 0) = <<1>>
    /\ v_get(TableV, UINT64_MAX) = <<2>>

\* the slots n applications of next_probe_position go through from pos
RECURSIVE Visited(_, _, _)
Visited(mask, pos, n) ==
    IF n = 0 THEN {}
    ELSE {pos} \cup Visited(mask, next_probe_position(mask, pos), n - 1)

\* C17: the capacity is a power of two in every state, and from every slot
\* capacity applications of next_probe_position go through every slot.
C17_CapacityPowerOfTwoAnySize ==
    /\ IsPow2(DataSize(v_data))
    /\ \A pos \in DOMAIN v_data :
           Visited(DataSize(v_data) - 1, pos, DataSize(v_data)) = DOMAIN v_data

\* C18: over an insert(k, v) that returns, get gives for every key other than
\* k what it gave before the call.
C18_InsertKeepsOtherKeys ==
    [][(h_last'.op = "insert" /\ h_last'.ret # "throw") =>
          \A k \in DOMAIN hash \ {h_last'.key} :
              (a_get(TableA, k))' = a_get(TableA, k)]_vars

\* C19: between calls, for every stored key at displacement d from its home
\* slot, each of the d slots from the home slot up to the key's slot is
\* Occupied with a stored probe distance of at least its offset from that
\* home slot; and a get of a key that is in the table does not return absent.
C19_RobinHoodOrder ==
    /\ w_call.pc = "idle" =>
           \A i \in DOMAIN v_data :
               v_data[i].status_ = 2 =>
                   LET cap == DataSize(v_data)
                       home == V_Home(v_data[i].key_)
                       d == (i + cap - home) % cap
                   IN  \A j \in 0 .. d - 1 :
                           /\ v_data[(home + j) % cap].status_ = 2
                           /\ v_data[(home + j) % cap].probe_dist_ >= j
    /\ (h_last.op = "get" /\ V_Stored(v_data, h_last.key) # << >>)
           => h_last.got # << >>

\* get's loop finds key in data: the key is in a slot, and at every offset
\* before it from the key's home slot the loop goes round again
V_GetFinds(data, key) ==
    \E i \in DOMAIN data :
        /\ data[i].status_ = 2
        /\ data[i].key_ = key
        /\ LET cap == DataSize(data)
               home == BitAnd(Hash(key), cap - 1)
               d == (i + cap - home) % cap
           IN  \A j \in 0 .. d - 1 :
                   LET s == data[(home + j) % cap]
                   IN  \/ s.status_ = 1
                       \/ s.status_ = 2 /\ s.key_ # key /\ j <= s.probe_dist_

\* the (key, value) pairs in the Occupied slots of data_
V_Pairs(data) ==
    {<<data[i].key_, data[i].val_>> :
        i \in {j \in DOMAIN data : data[j].status_ = 2}}

\* the step is a successful erase of key, from the table before the call to
\* the table after it
ErasedInStep(key) ==
    \/ /\ w_call.pc = "idle"
       /\ w_call'.pc = "idle"
       /\ h_last'.op = "erase"
       /\ h_last'.key = key
       /\ h_last'.ret = "true"
       /\ v_data' # v_data
    \/ /\ w_call.pc = "shift"
       /\ w_call.key = key
       /\ v_data[w_call.pos].status_ = 2
       /\ v_data[w_call.pos].key_ = key
       /\ w_call'.pc = "idle"

\* C20: a successful erase(k) takes k's pair out of the table and no other;
\* every other key that get found before the call it finds after it; every
\* remaining entry is in its slot with its probe distance, or one slot back
\* with one less; and a key whose insert has returned is found by get.
C20_EraseRemovesOnlyItsKey ==
    /\ [][\A key \in DOMAIN hash :
             ErasedInStep(key) =>
                 /\ V_Pairs(v_data') = {p \in V_Pairs(v_data) : p[1] # key}
                 /\ \A p \in V_Pairs(v_data') :
                        V_GetFinds(v_data, p[1]) => V_GetFinds(v_data', p[1])
                 /\ \A i \in DOMAIN v_data :
                        (v_data'[i].status_ = 2) =>
                            \/ v_data'[i] = v_data[i]
                            \/ LET next == v_data[(i + 1) % DataSize(v_data)]
                               IN  /\ next.status_ = 2
                                   /\ v_data'[i] =
                                          [next EXCEPT !.probe_dist_ = @ - 1]]_vars
    /\ []((w_call.pc = "idle" /\ h_last.op = "insert")
              => V_GetFinds(v_data, h_last.key))

\* C22: no step lowers capacity(); a step that changes it is an insert that
\* was called with size()/capacity() >= 0.85, and it doubles it once.
C22_CapacityGrowsOnlyInInsert ==
    /\ [][a_capacity' >= a_capacity]_vars
    /\ [][a_capacity' # a_capacity =>
             /\ h_last'.op = "insert"
             /\ a_size * A_LOAD_DEN >= A_LOAD_NUM * a_capacity
             /\ a_capacity' = 2 * a_capacity]_vars

\* an erase and then a get were called on the table that an insert had grown,
\* and left its capacity
C22_Witness ==
    /\ h_last.op = "get"
    /\ h_last.cap0 = 2 * INITIAL_CAPACITY
    /\ a_capacity = 2 * INITIAL_CAPACITY
    /\ a_size < NumFillA

\* C24: every slot's status_ is 0 or 2 and tombstone_ct_ is 0.
C24_NoTombstones ==
    /\ \A i \in DOMAIN v_data : v_data[i].status_ \in {0, 2}
    /\ v_tombstone_ct = 0

\* erase has returned true and its backward shift has moved an entry into the
\* slot of the erased key
C24_Witness ==
    /\ h_last.op = "erase"
    /\ h_last.ret = "true"
    /\ v_size = h_last.size0 - 1
    /\ \E i \in DOMAIN v_data :
          /\ v_data[i].status_ = 2
          /\ i = V_Home(h_last.key)
          /\ V_Home(v_data[i].key_) = i
          /\ v_data[i].key_ # h_last.key
    /\ \E i \in DOMAIN v_data : v_data[i].status_ = 0

\* C25: the live metadata and value ranges start at multiples of 64, the
\* metadata range ends at or before the start of the value range, the value
\* range ends at or before the arena's used bytes, which are within the arena;
\* and a growth puts the new metadata range at or above the end of the ranges
\* it abandons.
C25_LiveRangesInsideArena ==
    /\ [](/\ a_metadata_offset % CACHELINE_SIZE = 0
          /\ a_values_offset % CACHELINE_SIZE = 0
          /\ a_metadata_offset >= 0
          /\ a_metadata_offset + a_capacity * SIZEOF_META <= a_values_offset
          /\ a_values_offset + a_capacity * SIZEOF_VALUE <= a_used
          /\ a_used <= a_arena_size)
    /\ [][a_capacity' # a_capacity =>
             a_metadata_offset' >= a_values_offset + a_capacity * SIZEOF_VALUE]_vars
    /\ [][a_metadata_offset' >= a_metadata_offset
             /\ a_values_offset' >= a_values_offset]_vars

\* the table has grown into the ranges above its first ones
C25_Witness ==
    /\ a_capacity = 2 * INITIAL_CAPACITY
    /\ a_metadata_offset = INITIAL_CAPACITY * (SIZEOF_META + SIZEOF_VALUE)
    /\ a_values_offset = a_metadata_offset + a_capacity * SIZEOF_META
    /\ a_used = a_values_offset + a_capacity * SIZEOF_VALUE

\* C26: size() is the number of Occupied slots and at most capacity(); an
\* insert step changes it by 0 or +1 and an erase step by 0 or -1; and resize(),
\* called at the load factor at which insert calls it, leaves it.
C26_SizeCountsOccupied ==
    /\ [](/\ a_size = Cardinality({i \in DOMAIN a_metadata : a_metadata[i].status_ = 2})
          /\ a_size <= a_capacity)
    /\ [][/\ h_last'.op = "insert" => a_size' - a_size \in {0, 1}
          /\ h_last'.op = "erase" => a_size' - a_size \in {0, -1}
          /\ h_last'.op = "get" => a_size' = a_size]_vars
    /\ [](A_LoadAtThreshold(a_size, a_capacity) =>
             (~a_resize(TableA).threw => a_resize(TableA).t.size = a_size))

\* an insert that grew the table has stored a new key, and size() went from 55
\* to 56
C26_Witness ==
    /\ h_last.op = "insert"
    /\ h_last.cap0 = INITIAL_CAPACITY
    /\ a_capacity = 2 * INITIAL_CAPACITY
    /\ h_last.size0 = NumFillA
    /\ a_size = NumFillA + 1

\* C27: between calls no key is in two Occupied slots.
C27_NoKeyTwice ==
    w_call.pc = "idle" =>
        LET occupied == {i \in DOMAIN v_data : v_data[i].status_ = 2}
        IN  Cardinality({v_data[i].key_ : i \in occupied}) = Cardinality(occupied)

\* C29: on a table built with no slots get returns absent and erase false;
\* an insert called on it returns true and leaves a table of 16 slots that
\* holds the key with its value.
C29_EmptyTableUsable ==
    /\ (h_last.op = "get" /\ h_last.cap0 = 0) => h_last.got = << >>
    /\ (h_last.op = "erase" /\ h_last.cap0 = 0) => h_last.ret = "false"
    /\ (h_last.op = "insert" /\ h_last.cap0 = 0) =>
           /\ h_last.ret = "true"
           /\ DataSize(v_data) = 16
           /\ V_Stored(v_data, h_last.key) = <<h_last.val>>

----------------------------------------------------------------------------
(* Claims about the linear-probing table, under SpecLinear *)

\* the slots of the table that hold a tombstone
L_TombstoneSlots == {i \in DOMAIN l_data : l_data[i].key_ = TOMBSTONE}

\* C21: in the linear-probing table, after insert(k, v) returns get(k) gives
\* v, also when that insert ran resize(): the key then lies on its probe
\* sequence in the doubled table
C21_InsertThenGet ==
    h_last.op = "insert" => L_Got(TableL, h_last.key) = <<h_last.val>>

\* resize() has not run: the table has the capacity it was built with
L_NotResized == DataSize(l_data) = L_INITIAL_CAPACITY

\* the slots that hold the key
L_SlotsOf(key) == {i \in DOMAIN l_data : l_data[i].key_ = key}

\* C23: in the linear-probing table, while no resize() has run and no sentinel
\* key is used, every present key is returned by get with its value, also
\* after erase put a tombstone on its walk; no key lies in two slots; and
\* insert of a present key writes the value into the key's slot and leaves
\* every tombstone where it is
C23_TombstonesKeepKeys ==
    /\ [](L_NotResized =>
            /\ \A k \in KeysL : L_Got(TableL, k) = h_ref[k]
            /\ \A k \in KeysL : Cardinality(L_SlotsOf(k)) <= 1)
    /\ [][(L_NotResized' /\ h_last'.op = "insert" /\ h_last'.had # << >>) =>
            /\ h_last'.ret = "false"
            /\ L_TombstoneSlots' = L_TombstoneSlots
            /\ \A k \in KeysL : h_last'.key = k => L_SlotsOf(k)' = L_SlotsOf(k)
            /\ l_tombstone_ct' = l_tombstone_ct
            /\ l_size' = l_size]_vars

\* insert has written a new value into the slot of a present key whose walk
\* starts at a tombstone, and an erased key's neighbour is still found
C23_Witness ==
    /\ L_NotResized
    /\ h_last.op = "insert" /\ h_last.had # << >> /\ h_last.had # <<h_last.val>>
    /\ l_data[L_Home(h_last.key, L_INITIAL_CAPACITY - 1)].key_ = TOMBSTONE
    /\ L_Got(TableL, h_last.key) = <<h_last.val>>

\* C28: in the linear-probing table tombstone_ct_ is the number of slots that
\* hold a tombstone, in every state, after resize() too
C28_TombstoneCount == l_tombstone_ct = Cardinality(L_TombstoneSlots)

\* C30: the linear-probing table takes every 64-bit key, the two sentinel
\* values 2^64 - 1 and 2^64 - 2 too: get returns what was last inserted and
\* not erased, size() counts each present key once, and insert and erase
\* return what the reference map returns for the same call
C30_SentinelKeysUsable ==
    /\ \A k \in SentinelKeys : L_Got(TableL, k) = h_ref[k]
    /\ l_size = RefSize(h_ref)
    /\ h_last.op \in {"insert", "erase"} => h_last.ret = h_last.ref_ret

\* C31: the probe distance that insert writes into a slot's 16-bit
\* probe_dist_ field is the walk's displacement, for displacements of 256 and
\* more too: when insert has stored a new key, the key's slot holds the
\* distance, with wraparound, from the key's home slot to that slot
C31_WrittenProbeDistIsDisplacement ==
    (h_last.op = "insert" /\ h_last.ret = "true" /\ h_last.had = << >>) =>
        \A i \in DOMAIN v_data :
            (v_data[i].status_ = 2 /\ v_data[i].key_ = h_last.key) =>
                v_data[i].probe_dist_ =
                    (i + DataSize(v_data) - V_Home(h_last.key)) % DataSize(v_data)

====
